---- MODULE Spec2Model ----
(***************************************************************************)
(* Model of the reverse-turing repository: the mitigation functions of     *)
(* mitigation.py (reweight_by_group, isotonic_postprocess) and the         *)
(* Streamlit script app.py (Submit Guess / Run Analysis).                  *)
(*                                                                         *)
(* Real numbers are modelled as exact rationals <<num, den>> in lowest     *)
(* terms with den > 0; the rounding of IEEE doubles is not modelled.       *)
(***************************************************************************)
EXTENDS Integers, Sequences, FiniteSets, TLC

VARIABLES
    \* ---- reweight_by_group and its caller
    resumes,        \* caller's resumes sequence
    labels,         \* caller's labels sequence (0/1)
    protected_fn,   \* the group-extraction function handed to the call
    groups,         \* the dict `groups` of the last call's frame
    weights,        \* value returned by the last call
    argN,           \* length of the log prefix handed to the last call (-1: no call yet)
    rwOp,           \* last operation of the caller: "init", "append", "call"
    shorter,        \* the last call was on a shorter log than the call before it
    \* ---- isotonic_postprocess and the transform it returns
    isoScores,      \* training scores
    isoLabels,      \* training labels
    ir,             \* the IsotonicRegression object after fit (or the error raised)
    newScores,      \* argument of the last transform call
    out,            \* value returned by the last transform call
    isoOp,          \* "init", "fit", "transform", "raised" (transform raised)
    \* ---- app.py: one browser session of the Streamlit script
    trials,         \* st.session_state.trials
    choice,         \* value of the radio widget (NoChoice until an option is picked)
    round,          \* what the last script run drew and displayed
    shown,          \* the round that was on screen when the user picked the option
    run,            \* what the last script run did in its button handlers
    db              \* payloads handed to save_run_result so far

rwVars == <<resumes, labels, protected_fn, groups, weights, argN, rwOp, shorter>>

isoVars == <<isoScores, isoLabels, ir, newScores, out, isoOp>>

appVars == <<trials, choice, round, shown, run, db>>

vars == <<rwVars, isoVars, appVars>>

(***************************************************************************)
(* Exact rational arithmetic standing for the float arithmetic of numpy.   *)
(***************************************************************************)
RECURSIVE GCD(_, _)
GCD(a, b) == IF b = 0 THEN a ELSE GCD(b, a % b)

Abs(x) == IF x < 0 THEN 0 - x ELSE x

Rat(n, d) ==
    LET g == GCD(Abs(n), Abs(d))
        s == IF d < 0 THEN 0 - 1 ELSE 1
    IN  <<(s * n) \div g, (s * d) \div g>>

RInt(n) == <<n, 1>>

RAdd(a, b) == Rat(a[1] * b[2] + b[1] * a[2], a[2] * b[2])

RSub(a, b) == Rat(a[1] * b[2] - b[1] * a[2], a[2] * b[2])

RMul(a, b) == Rat(a[1] * b[1], a[2] * b[2])

RDiv(a, b) == Rat(a[1] * b[2], a[2] * b[1])

RLe(a, b) == a[1] * b[2] <= b[1] * a[2]

RLt(a, b) == a[1] * b[2] < b[1] * a[2]

RMax(a, b) == IF RLe(b, a) THEN a ELSE b

RECURSIVE RSum(_)
RSum(s) == IF s = <<>> THEN RInt(0) ELSE RAdd(s[1], RSum(Tail(s)))

RECURSIVE ISum(_)
ISum(s) == IF s = <<>> THEN 0 ELSE s[1] + ISum(Tail(s))

\* np.mean of a non-empty sequence of integers / of rationals
MeanInt(s) == Rat(ISum(s), Len(s))

MeanRat(s) == RDiv(RSum(s), RInt(Len(s)))

(***************************************************************************)
(* mitigation.py: reweight_by_group                                        *)
(***************************************************************************)
MaxTrials == 4

Resumes == {"r1", "r2", "r3"}

GroupKeys == {"A", "B", "C"}

Labels == {0, 1}

\* protected_fn is any callable; the code uses its values only as dict keys,
\* so one extractor per partition of the resumes covers every extractor.
ProtectedFns ==
    {[r \in Resumes |-> "A"],
     [r \in Resumes |-> IF r = "r3" THEN "B" ELSE "A"],
     [r \in Resumes |-> IF r = "r2" THEN "B" ELSE "A"],
     [r \in Resumes |-> IF r = "r1" THEN "A" ELSE "B"],
     [r \in Resumes |-> IF r = "r1" THEN "A" ELSE IF r = "r2" THEN "B" ELSE "C"]}

\* the floor 0.01 of line 19
FloorNum == 1

FloorDen == 100

SelFloor == Rat(FloorNum, FloorDen)

\* zip(resumes, labels): stops at the shorter sequence
ZipLen(rs, ls) == IF Len(rs) <= Len(ls) THEN Len(rs) ELSE Len(ls)

EmptyDict == [g \in {} |-> <<>>]

\* groups = {}  (line 10): every call starts from a fresh dict
NewGroups_stale(prev) == prev

NewGroups(prev) == EmptyDict

\* groups.setdefault(g, []).append(lab)  (line 13)
SetDefaultAppend_overwrite(d, g, lab) ==
    [k \in DOMAIN d \cup {g} |-> IF k = g THEN <<lab>> ELSE d[k]]

SetDefaultAppend(d, g, lab) ==
    [k \in DOMAIN d \cup {g} |->
        IF k = g THEN Append(IF g \in DOMAIN d THEN d[g] ELSE <<>>, lab)
        ELSE d[k]]

\* the first loop (lines 11-13), from index i on
RECURSIVE BuildGroups(_, _, _, _, _)
BuildGroups(d, rs, ls, fn, i) ==
    IF i > ZipLen(rs, ls) THEN d
    ELSE BuildGroups(SetDefaultAppend(d, fn[rs[i]], ls[i]), rs, ls, fn, i + 1)

\* grp = groups.get(g, [0]); sel_rate = np.mean(grp) if len(grp) > 0 else 0.5
SelRate(d, g) ==
    LET grp == IF g \in DOMAIN d THEN d[g] ELSE <<0>>
    IN  IF Len(grp) > 0 THEN MeanInt(grp) ELSE Rat(1, 2)

\* w = 1.0 / max(0.01, sel_rate)  (line 19)
RawWeight_bySize(d, g) == Rat(1, Len(d[g]))

RawWeight(d, g) == RDiv(RInt(1), RMax(SelFloor, SelRate(d, g)))

\* the second loop (lines 14-20)
RawWeights(d, rs, ls, fn) ==
    LET byGroup == [g \in DOMAIN d |-> RawWeight(d, g)]
    IN  [i \in 1..ZipLen(rs, ls) |-> byGroup[fn[rs[i]]]]

\* w / np.mean(w)  (line 22); the empty array divides to the empty array
Normalize_bySum(w) ==
    LET t == RSum(w) IN [i \in 1..Len(w) |-> RDiv(w[i], t)]

Normalize(w) ==
    IF Len(w) = 0 THEN <<>>
    ELSE LET m == MeanRat(w) IN [i \in 1..Len(w) |-> RDiv(w[i], m)]

\* The whole call.  `prev` is whatever dict an earlier call left behind; the
\* result records the returned array, the frame's dict and the argument
\* objects as the call leaves them.
reweight_by_group(prev, rs, ls, fn) ==
    LET d == BuildGroups(NewGroups(prev), rs, ls, fn, 1)
    IN  [ret    |-> Normalize(RawWeights(d, rs, ls, fn)),
         groups |-> d,
         resumes |-> rs,
         labels  |-> ls]

Prefix(s, k) == SubSeq(s, 1, k)

\* ---- the pure-function specification: inputs drawn in Init, one call
RWInputs ==
    /\ \E n \in 0..MaxTrials :
          /\ resumes \in [1..n -> Resumes]
          /\ labels \in [1..n -> Labels]
    /\ protected_fn \in ProtectedFns

\* stands for None, the radio's value while nothing is picked (app.py, index=None)
NoChoice == 0

AppIdle ==
    /\ trials = <<>>
    /\ choice = NoChoice
    /\ round = [resume |-> "none"]
    /\ shown = [resume |-> "none"]
    /\ run = [kind |-> "none"]
    /\ db = <<>>

IsoIdle ==
    /\ isoScores = <<>>
    /\ isoLabels = <<>>
    /\ ir = [status |-> "none"]
    /\ newScores = <<>>
    /\ out = <<>>
    /\ isoOp = "init"

RWInit ==
    /\ IsoIdle
    /\ AppIdle
    /\ RWInputs
    /\ groups = EmptyDict
    /\ weights = <<>>
    /\ argN = 0 - 1
    /\ rwOp = "init"
    /\ shorter = FALSE

\* weights = reweight_by_group(resumes[:k], labels[:k], protected_fn)
CallReweight(k) ==
    /\ k \in 0..Len(resumes)
    /\ \E r \in {reweight_by_group(groups, Prefix(resumes, k), Prefix(labels, k),
                                     protected_fn)} :
           /\ weights' = r.ret
           /\ groups' = r.groups
           /\ resumes' = r.resumes \o SubSeq(resumes, k + 1, Len(resumes))
           /\ labels' = r.labels \o SubSeq(labels, k + 1, Len(labels))
    /\ argN' = k
    /\ shorter' = (k < argN)
    /\ rwOp' = "call"
    /\ UNCHANGED <<protected_fn, isoVars, appVars>>

CallFull == CallReweight(Len(resumes))

RWNext == CallFull

SpecRW == RWInit /\ [][RWNext]_vars

\* ---- the caller whose trial log grows between calls
MaxLog == 3

CallsInit ==
    /\ IsoIdle
    /\ AppIdle
    /\ resumes = <<>>
    /\ labels = <<>>
    /\ protected_fn \in ProtectedFns
    /\ groups = EmptyDict
    /\ weights = <<>>
    /\ argN = 0 - 1
    /\ rwOp = "init"
    /\ shorter = FALSE

AppendTrial(r, lab) ==
    /\ Len(resumes) < MaxLog
    /\ resumes' = Append(resumes, r)
    /\ labels' = Append(labels, lab)
    /\ rwOp' = "append"
    /\ UNCHANGED <<protected_fn, groups, weights, argN, shorter, isoVars, appVars>>

CallsNext ==
    \/ \E r \in Resumes, lab \in Labels : AppendTrial(r, lab)
    \/ \E k \in 0..MaxLog : CallReweight(k)

SpecCalls == CallsInit /\ [][CallsNext]_vars

(***************************************************************************)
(* Claims about reweight_by_group                                          *)
(***************************************************************************)
Called == rwOp = "call"

ArgResumes == Prefix(resumes, argN)

ArgLabels == Prefix(labels, argN)

GroupOf(i) == protected_fn[ArgResumes[i]]

GroupsPresent == {GroupOf(i) : i \in 1..argN}

Members(g) == {j \in 1..argN : GroupOf(j) = g}

\* selection rate of group g: the mean 0/1 label of the trials whose key is g
RefRate(g) == Rat(Cardinality({j \in Members(g) : ArgLabels[j] = 1}),
                  Cardinality(Members(g)))

RefRaw(g) == IF RLt(RefRate(g), Rat(1, 100)) THEN RInt(100)
             ELSE RDiv(RInt(1), RefRate(g))

RefRawSum == RSum([i \in 1..argN |-> RefRaw(GroupOf(i))])

RefWeights ==
    LET t == RefRawSum
    IN  [i \in 1..argN |-> RDiv(RMul(RefRaw(GroupOf(i)), RInt(argN)), t)]

\* C1: for every non-empty input the returned weights sum to the number of
\* trials (mean exactly 1) and every weight is non-negative.
C1_MeanOne ==
    (Called /\ argN >= 1) =>
        /\ RSum(weights) = RInt(argN)
        /\ \A i \in 1..Len(weights) : weights[i][1] >= 0 /\ weights[i][2] > 0

C1_Witness ==
    /\ Called /\ argN >= 3
    /\ \E i, j \in 1..Len(weights) : RLt(weights[i], weights[j])

\* C2: one weight per trial in input order, the i-th being r_i / mean(r) with
\* r_i = 1 / max(rate(group of i), 0.01); same group, same weight; a group with
\* rate below 0.01 is weighted as a group with rate 0.01.
C2_WeightFormula ==
    Called =>
        /\ Len(weights) = argN
        /\ weights = RefWeights
        /\ \A i, j \in 1..argN : GroupOf(i) = GroupOf(j) => weights[i] = weights[j]
        /\ LET t == RefRawSum
           IN  \A i \in 1..argN :
                  RLt(RefRate(GroupOf(i)), Rat(1, 100)) =>
                      RMul(weights[i], t) = RInt(100 * argN)

C2_Witness ==
    /\ Called /\ argN = MaxTrials
    /\ \E g, h \in GroupsPresent :
          /\ RefRate(g) = RInt(0)
          /\ RefRate(h) = Rat(1, 2)
    /\ \E i, j \in 1..argN : weights[i] # weights[j]

\* C3: when all groups present have the same selection rate, every weight is 1.
C3_EqualRates ==
    (Called /\ \A g, h \in GroupsPresent : RefRate(g) = RefRate(h)) =>
        \A i \in 1..Len(weights) : weights[i] = RInt(1)

\* outcomes [1,0,1,0] with group keys [A,A,B,B]
C3_Witness ==
    /\ Called /\ argN = 4
    /\ ArgLabels = <<1, 0, 1, 0>>
    /\ GroupOf(1) = GroupOf(2) /\ GroupOf(3) = GroupOf(4) /\ GroupOf(1) # GroupOf(3)
    /\ weights = <<RInt(1), RInt(1), RInt(1), RInt(1)>>

\* the result of a first call, on a process that never called before
FreshCall(rs, ls, fn) == reweight_by_group(EmptyDict, rs, ls, fn).ret

\* C7: every call leaves the caller's resumes and labels as they were and
\* returns what a fresh first call on the same arguments returns.
C7_Stateless ==
    [][rwOp' = "call" =>
          /\ resumes' = resumes
          /\ labels' = labels
          /\ weights' = FreshCall(Prefix(resumes, argN'), Prefix(labels, argN'),
                                  protected_fn)]_vars

\* a call on a log L made after a call on an extension of L
C7_Witness ==
    /\ Called /\ shorter /\ argN >= 2
    /\ \E i, j \in 1..Len(weights) : weights[i] # weights[j]

(***************************************************************************)
(* mitigation.py: isotonic_postprocess.  IsotonicRegression is modelled as *)
(* scikit-learn implements it: fit sorts the points by score, averages the *)
(* targets of equal scores, runs pool-adjacent-violators, drops interior   *)
(* points of constant runs and interpolates linearly between the rest;     *)
(* transform clips its input to the training range (out_of_bounds='clip'). *)
(***************************************************************************)
MaxTrain == 3

MaxNew == 2

IsoScoreVals == {0, 2, 4}

IsoQueryVals == (0 - 1)..5

NaN == <<0, 0>>

SetMin(S) == CHOOSE x \in S : \A y \in S : x <= y

SetMax(S) == CHOOSE x \in S : \A y \in S : y <= x

RECURSIVE SortedSeq(_)
SortedSeq(S) == IF S = {} THEN <<>> ELSE <<SetMin(S)>> \o SortedSeq(S \ {SetMin(S)})

Range(f) == {f[i] : i \in DOMAIN f}

\* One block per distinct training score, in increasing score order: s the sum
\* of its targets, w the number of training points, n the scores it spans.
UniqueBlocks(xs, ys) ==
    LET ux == SortedSeq(Range(xs))
    IN  [k \in 1..Len(ux) |->
            LET idx == {i \in 1..Len(xs) : xs[i] = ux[k]}
            IN  [s |-> ISum([j \in 1..Cardinality(idx) |->
                                ys[SortedSeq(idx)[j]]]),
                 w |-> Cardinality(idx),
                 n |-> 1]]

MergeBlocks(a, b) == [s |-> a.s + b.s, w |-> a.w + b.w, n |-> a.n + b.n]

\* the mean of block a is not below the mean of block b
Violates(a, b) == a.s * b.w >= b.s * a.w

\* push block b on the stack of pooled blocks, pooling backwards while the
\* order is violated
RECURSIVE Push(_, _)
Push(st, b) ==
    IF st # <<>> /\ Violates(st[Len(st)], b)
    THEN Push(SubSeq(st, 1, Len(st) - 1), MergeBlocks(st[Len(st)], b))
    ELSE Append(st, b)

RECURSIVE Pool(_, _, _)
Pool(st, blocks, i) ==
    IF i > Len(blocks) THEN st ELSE Pool(Push(st, blocks[i]), blocks, i + 1)

\* isotonic_regression(unique_y, sample_weight, increasing=True)
PAVA_none(blocks) == blocks

PAVA(blocks) == Pool(<<>>, blocks, 1)

\* the fitted value of every distinct score, in score order
RECURSIVE Expand(_)
Expand(blocks) ==
    IF blocks = <<>> THEN <<>>
    ELSE [j \in 1..blocks[1].n |-> Rat(blocks[1].s, blocks[1].w)]
         \o Expand(Tail(blocks))

\* keep_data of _build_y: interior points equal to both neighbours are dropped
KeepData(y) ==
    {i \in 1..Len(y) :
        \/ i = 1
        \/ i = Len(y)
        \/ y[i] # y[i - 1]
        \/ y[i] # y[i + 1]}

Select(s, keep) ==
    [j \in 1..Cardinality(keep) |-> s[SortedSeq(keep)[j]]]

\* ir.fit(scores, labels)
Fit(xs, ys) ==
    IF Len(xs) # Len(ys) \/ Len(xs) = 0 THEN [status |-> "ValueError"]
    ELSE LET ux   == SortedSeq(Range(xs))
             y    == Expand(PAVA(UniqueBlocks(xs, ys)))
             keep == KeepData(y)
         IN  [status |-> "ok",
              X |-> Select(ux, keep),
              y |-> Select(y, keep),
              X_min |-> ux[1],
              X_max |-> ux[Len(ux)]]

\* np.clip(T, X_min_, X_max_)
Clip_none(x, lo, hi) == x

Clip(x, lo, hi) == IF x < lo THEN lo ELSE IF x > hi THEN hi ELSE x

\* f_: the constant for a single threshold, else interp1d(kind='linear',
\* bounds_error=False), which yields nan outside the thresholds
Interp(m, x) ==
    IF Len(m.y) = 1 THEN m.y[1]
    ELSE IF x < m.X[1] \/ x > m.X[Len(m.X)] THEN NaN
    ELSE LET i == CHOOSE k \in 1..(Len(m.X) - 1) : m.X[k] <= x /\ x <= m.X[k + 1]
         IN  RAdd(m.y[i],
                  RMul(RSub(m.y[i + 1], m.y[i]),
                       Rat(x - m.X[i], m.X[i + 1] - m.X[i])))

\* transform(new_scores)
Transform(m, T) ==
    IF Len(T) = 0 THEN [status |-> "ValueError", ret |-> <<>>]
    ELSE [status |-> "ok",
          ret |-> [i \in 1..Len(T) |-> Interp(m, Clip(T[i], m.X_min, m.X_max))]]

IsoInputs ==
    \E n \in 0..MaxTrain :
        /\ isoScores \in [1..n -> IsoScoreVals]
        /\ isoLabels \in [1..n -> Labels]

RWIdle ==
    /\ resumes = <<>>
    /\ labels = <<>>
    /\ protected_fn = [r \in Resumes |-> "A"]
    /\ groups = EmptyDict
    /\ weights = <<>>
    /\ argN = 0 - 1
    /\ rwOp = "init"
    /\ shorter = FALSE

IsoInit ==
    /\ RWIdle
    /\ AppIdle
    /\ IsoInputs
    /\ ir = [status |-> "none"]
    /\ newScores = <<>>
    /\ out = <<>>
    /\ isoOp = "init"

\* transform = isotonic_postprocess(scores, labels)
Postprocess ==
    /\ isoOp = "init"
    /\ ir' = Fit(isoScores, isoLabels)
    /\ isoOp' = "fit"
    /\ UNCHANGED <<isoScores, isoLabels, newScores, out, rwVars, appVars>>

\* out = transform(T), possible once isotonic_postprocess has returned one.
\* The transform reads ir and writes nothing, so a single call per fitted
\* transform reaches every result it can give.
CallTransform(T) ==
    /\ isoOp = "fit"
    /\ ir.status = "ok"
    /\ \E r \in {Transform(ir, T)} :
          /\ out' = r.ret
          /\ isoOp' = IF r.status = "ok" THEN "transform" ELSE "raised"
    /\ newScores' = T
    /\ UNCHANGED <<isoScores, isoLabels, ir, rwVars, appVars>>

IsoNext ==
    \/ Postprocess
    \/ \E n \in 0..MaxNew : \E T \in [1..n -> IsoQueryVals] : CallTransform(T)

SpecIso == IsoInit /\ [][IsoNext]_vars

(***************************************************************************)
(* Claims about isotonic_postprocess                                       *)
(***************************************************************************)
Fitted == isoOp # "init"

Transformed == isoOp = "transform"

\* fewer than two training points, or fewer than two distinct target values
DegenerateTraining ==
    Len(isoScores) < 2 \/ Cardinality(Range(isoLabels)) < 2

\* C4: fitting on a degenerate training set fails and returns no transform.
C4_DegenerateRejected ==
    (Fitted /\ DegenerateTraining) => ir.status # "ok"

\* C5: the returned transform is monotonic non-decreasing.
C5_Monotone ==
    Transformed =>
        \A i, j \in 1..Len(newScores) :
            newScores[i] < newScores[j] => RLe(out[i], out[j])

\* some training point with a lower score has the higher label
TrainingViolatesOrder ==
    \E a, b \in 1..Len(isoScores) :
        isoScores[a] < isoScores[b] /\ isoLabels[a] > isoLabels[b]

C5_Witness ==
    /\ Transformed /\ TrainingViolatesOrder
    /\ Len(newScores) = 2
    /\ newScores[1] < newScores[2]
    /\ newScores[1] \in Range(isoScores) /\ newScores[2] \in Range(isoScores)
    /\ RLt(out[1], out[2])

\* C6: the transform never extrapolates.
C6_Clipped ==
    Transformed =>
        \A i \in 1..Len(newScores) :
            /\ newScores[i] < SetMin(Range(isoScores)) =>
                   out[i] = Interp(ir, SetMin(Range(isoScores)))
            /\ newScores[i] > SetMax(Range(isoScores)) =>
                   out[i] = Interp(ir, SetMax(Range(isoScores)))
            /\ \E a, b \in 1..Len(ir.y) :
                   RLe(ir.y[a], out[i]) /\ RLe(out[i], ir.y[b])
            /\ out[i] # NaN

C6_Witness ==
    /\ Transformed
    /\ Len(newScores) = 2
    /\ newScores[1] < SetMin(Range(isoScores))
    /\ newScores[2] > SetMax(Range(isoScores))
    /\ RLt(out[1], out[2])

(***************************************************************************)
(* app.py: the Streamlit script.  Every interaction of the user (picking a *)
(* radio option, pressing a button) reruns the script from the top, which  *)
(* redraws the resume, the persona and the option order (lines 59-72)      *)
(* before the button handlers run.  Widget values and st.session_state     *)
(* survive the rerun; at most one button is pressed in a rerun.            *)
(***************************************************************************)
MaxAppTrials == 2

\* resumes_df.index (line 59)
AppResumes == {"r1", "r2"}

\* keys of bias_personas (personas.py)
Personas == {"gender_bias"}

AiTag == "AI Model"


\* ai_mock_score(resume) and persona_fn(resume), in hundredths
ai_mock_score(r) == IF r = "r1" THEN 80 ELSE 60

bias_personas(p, r) == IF r = "r1" THEN 50 ELSE 60

\* lines 59-72: one draw of resume, persona and shuffled order
DrawRound(r, p, first) ==
    LET ai == <<AiTag, ai_mock_score(r)>>
        ps == <<p, bias_personas(p, r)>>
    IN  [resume        |-> r,
         ai_score      |-> ai[2],
         persona       |-> p,
         persona_score |-> ps[2],
         scores        |-> IF first = 1 THEN <<ai, ps>> ELSE <<ps, ai>>]

Rounds == {DrawRound(r, p, f) : r \in AppResumes, p \in Personas, f \in {1, 2}}

\* correct_answer = 1 if scores[choice-1][0] == persona_name else 0  (line 87)
CorrectAnswer_asChoice(rnd, c) == c

CorrectAnswer(rnd, c) == IF rnd.scores[c][1] = rnd.persona THEN 1 ELSE 0

\* the dict appended at lines 88-96; the text area is left empty
TrialRecord(rnd, c) ==
    [resume        |-> rnd.resume,
     ai_score      |-> rnd.ai_score,
     persona_score |-> rnd.persona_score,
     persona       |-> rnd.persona,
     choice        |-> c,
     correct       |-> CorrectAnswer(rnd, c),
     explanation   |-> ""]

Idle == [kind |-> "idle", error |-> "none", warning |-> FALSE, calls |-> <<>>]

\* ---- Run Analysis (lines 104-170)
\* `if not trials`  (line 106)
NoTrials(t) == t = <<>>

\* the names mitigation.py defines
MitigationFunctions == {"reweight_by_group", "isotonic_postprocess"}

PipelineSteps ==
    <<"performance", "binomial_test", "kl_divergence", "js_divergence",
      "earth_movers_distance", "train_meta_classifier",
      "generate_counterfactuals", "generate_report", "apply_reweighing",
      "save_run_result">>

\* df["correct"].sum() and len(df)  (lines 110-111)
CorrectSum(t) == ISum([i \in 1..Len(t) |-> t[i].correct])

\* y = (df["persona"] != "AI Model").astype(int).values  (line 135)
MetaLabels(t) == [i \in 1..Len(t) |-> IF t[i].persona # AiTag THEN 1 ELSE 0]

\* what a step raises before any callee is entered
PreError(step, t) ==
    IF step = "performance" /\ Len(t) = 0 THEN "ZeroDivisionError"
    ELSE IF step = "apply_reweighing" /\ step \notin MitigationFunctions
         THEN "AttributeError"
    ELSE "none"

\* the analytics functions (analytics.py) by their contracts
binomial_test(correct, n) == IF n = 0 THEN "InvalidInput" ELSE "none"

distance_metric(a, b) == IF Len(a) = 0 \/ Len(b) = 0 THEN "EmptyInput" ELSE "none"

train_meta_classifier(y) ==
    IF Cardinality(Range(y)) < 2 THEN "DegenerateLabels" ELSE "none"

\* report.generate_report: recomputes the three distances (report.py 17-19)
generate_report(t) == distance_metric(t, t)

\* what the callee of a step raises
CalleeError(step, t) ==
    IF step = "binomial_test" THEN binomial_test(CorrectSum(t), Len(t))
    ELSE IF step \in {"kl_divergence", "js_divergence", "earth_movers_distance"}
         THEN distance_metric(t, t)
    ELSE IF step = "train_meta_classifier" THEN train_meta_classifier(MetaLabels(t))
    ELSE IF step = "generate_report" THEN generate_report(t)
    ELSE "none"

CallArgs(step, t) ==
    IF step = "binomial_test" THEN <<CorrectSum(t), Len(t)>>
    ELSE IF step = "train_meta_classifier" THEN MetaLabels(t)
    ELSE IF step = "save_run_result" THEN <<Len(t), t>>
    ELSE <<>>

\* the else branch of line 108, from step i on: stops at the first exception
RECURSIVE RunFrom(_, _, _)
RunFrom(i, t, calls) ==
    IF i > Len(PipelineSteps) THEN [calls |-> calls, error |-> "none"]
    ELSE LET step == PipelineSteps[i]
         IN  IF PreError(step, t) # "none"
             THEN [calls |-> calls, error |-> PreError(step, t)]
             ELSE IF step = "performance" THEN RunFrom(i + 1, t, calls)
             ELSE LET c == Append(calls, [fn |-> step, args |-> CallArgs(step, t)])
                  IN  IF CalleeError(step, t) # "none"
                      THEN [calls |-> c, error |-> CalleeError(step, t)]
                      ELSE RunFrom(i + 1, t, c)

Analysis(t) ==
    IF NoTrials(t)
    THEN [kind |-> "analysis", error |-> "none", warning |-> TRUE, calls |-> <<>>]
    ELSE LET r == RunFrom(1, t, <<>>)
         IN  [kind |-> "analysis", error |-> r.error, warning |-> FALSE,
              calls |-> r.calls]

SavedBy(calls) ==
    LET idx == {i \in 1..Len(calls) : calls[i].fn = "save_run_result"}
    IN  [j \in 1..Cardinality(idx) |-> calls[SortedSeq(idx)[j]].args]

\* ---- the session
AppInit ==
    /\ RWIdle
    /\ IsoIdle
    /\ trials = <<>>
    /\ choice = NoChoice
    /\ round \in Rounds
    /\ shown = [resume |-> "none"]
    /\ run = Idle
    /\ db = <<>>

\* the user picks option c: the widget takes the value and the script reruns
SelectOption(c, rnd) ==
    /\ choice # c
    /\ choice' = c
    /\ shown' = round
    /\ round' = rnd
    /\ run' = Idle
    /\ UNCHANGED <<trials, db, rwVars, isoVars>>

\* the user presses Submit Guess: the script reruns, then lines 86-97
SubmitGuess(rnd) ==
    /\ round' = rnd
    /\ IF choice = NoChoice
       THEN /\ run' = [Idle EXCEPT !.kind = "submit", !.error = "TypeError"]
            /\ UNCHANGED trials
       ELSE /\ Len(trials) < MaxAppTrials
            /\ trials' = Append(trials, TrialRecord(rnd, choice))
            /\ run' = [Idle EXCEPT !.kind = "submit"]
    /\ UNCHANGED <<choice, shown, db, rwVars, isoVars>>

\* the user presses Run Analysis: the script reruns, then lines 104-170
RunAnalysis(rnd) ==
    /\ round' = rnd
    /\ \E a \in {Analysis(trials)} :
          /\ run' = a
          /\ db' = db \o SavedBy(a.calls)
    /\ UNCHANGED <<trials, choice, shown, rwVars, isoVars>>

AppNext ==
    \/ \E c \in {1, 2}, rnd \in Rounds : SelectOption(c, rnd)
    \/ \E rnd \in Rounds : SubmitGuess(rnd)
    \/ \E rnd \in Rounds : RunAnalysis(rnd)

SpecApp == AppInit /\ [][AppNext]_vars

(***************************************************************************)
(* Claims about app.py                                                     *)
(***************************************************************************)
Analysed == run.kind = "analysis"

BinomialCalls == {i \in 1..Len(run.calls) : run.calls[i].fn = "binomial_test"}

\* C8: every call to binomial_test(correct, n) has n >= 1 and 0 <= correct <= n,
\* n the number of recorded trials and correct the number of them flagged 1;
\* on an empty log Run Analysis only warns and runs no step.
C8_BinomialArgs ==
    /\ \A i \in BinomialCalls :
          LET correct == run.calls[i].args[1]
              n       == run.calls[i].args[2]
          IN  /\ n >= 1
              /\ 0 <= correct /\ correct <= n
              /\ n = Len(trials)
              /\ correct = Cardinality({j \in 1..Len(trials) : trials[j].correct = 1})
    /\ (Analysed /\ trials = <<>>) =>
          /\ run.warning
          /\ run.calls = <<>>
          /\ run.error = "none"
          /\ db = <<>>

C8_Witness ==
    /\ Analysed /\ Len(trials) = MaxAppTrials
    /\ \E i \in BinomialCalls :
          /\ run.calls[i].args[1] >= 1
          /\ run.calls[i].args[1] < run.calls[i].args[2]

\* C9: the record Submit Guess appends is the round that was displayed when
\* the user picked the option, and its correct flag says whether the option
\* picked was, as displayed, the persona's score.
C9_RecordIsShownRound ==
    (run.kind = "submit" /\ run.error = "none") =>
        LET rec == trials[Len(trials)]
        IN  /\ rec.resume = shown.resume
            /\ rec.ai_score = shown.ai_score
            /\ rec.persona_score = shown.persona_score
            /\ rec.persona = shown.persona
            /\ rec.correct = 1 <=> shown.scores[rec.choice][1] = shown.persona

\* C10: Run Analysis on a non-empty log runs every step in order without an
\* error and saves the run exactly once, with n and all recorded trials.
C10_PipelineCompletes ==
    (Analysed /\ trials # <<>>) =>
        /\ run.error = "none"
        /\ [i \in 1..Len(run.calls) |-> run.calls[i].fn] = Tail(PipelineSteps)
        /\ SavedBy(run.calls) = <<<<Len(trials), trials>>>>

====
